---- MODULE Spec2Model ----
(***************************************************************************)
(* A model of the BITalino acquisition manager (src/Bitalinomanager.py)    *)
(* and of its live-plot child process (src/liveplot.py).                   *)
(*                                                                         *)
(* One behaviour is one run of a script that uses Bitalino_Manager: one    *)
(* start_aquisition() call (with its device-busy retries), and calls of    *)
(* connect(), disconnect() and force_stop_aquisition() before it, and of   *)
(* the latter two after it.  The vendor SDK (class BITalino) is not        *)
(* part of the repository: every SDK call is an environment step whose     *)
(* outcome (normal return or exception) is chosen nondeterministically.    *)
(*                                                                         *)
(* Numbers: raw samples are 10-bit integers; converted samples are exact   *)
(* rationals [num, den] in lowest terms (the floating-point rounding of    *)
(* the Python arithmetic is not modelled).                                 *)
(*                                                                         *)
(* Not modelled: the text printed on stdout (only which diagnostic ended   *)
(* the poll loop is kept, in exit_by), and file-system failures of the CSV *)
(* step.                                                                   *)
(***************************************************************************)
EXTENDS Integers, Sequences, FiniteSets, TLC

\* ------------------------------------------------------------ bounds
\* Largest runtime argument (seconds) a caller passes.
MaxRuntime == 2
\* Longest time (seconds) one blocking device.read takes; the shortest is 1.
MaxTick == 2
\* Number of device-busy retries the environment provokes in one session.
MaxRetry == 1
\* Largest nSamples argument.
MaxSamples == 2
\* Largest number of entries of a channels mapping.
MaxChannels == 3
\* Value of time.time() when the script starts.
Epoch == 1
\* Number of connect(), disconnect() and force_stop_aquisition() calls the
\* script makes itself.
MaxScriptCalls == 2

\* ------------------------------------------------- program constants
ACQ_CHANNELS ==
    [c \in {"A1", "A2", "A3", "A4", "A5", "A6"} |->
        CASE c = "A1" -> 0 [] c = "A2" -> 1 [] c = "A3" -> 2
          [] c = "A4" -> 3 [] c = "A5" -> 4 [] c = "A6" -> 5]

SENSOR_TYPES == {"EDA", "ECG", "RAW"}

SAMPLING_RATES == {1, 10, 100, 1000}

COLUMN_OFFSET == 5

\* macAddress = None
None == "None"

DEFAULT_DEVICE_STATE ==
    [MAC |-> "", selected_channels |-> <<0>>, sampling_rate |-> 100,
     connected |-> FALSE]

\* The exception messages the handlers of start_aquisition compare with
\* (bitalino.ExceptionCode), and the other exceptions of the model.
DEVICE_NOT_IDLE == "The device is not idle."
CONTACTING_DEVICE == "The computer lost communication with the device."
KeyboardInterrupt == "KeyboardInterrupt"
ConnectionError == "[Connection Error]"
InvalidChannel == "[Invalid channel]"
AttributeError == "AttributeError"
UnboundLocalError == "UnboundLocalError"
ValueError == "ValueError"
BrokenPipeError == "BrokenPipeError"
OtherError == "Exception"

\* ------------------------------------------------ exact rationals
GCD[a \in Nat, b \in Nat] == IF b = 0 THEN a ELSE GCD[b, a % b]

Abs(x) == IF x < 0 THEN -x ELSE x

\* The fraction nu/de in lowest terms with a positive denominator.
Normalize[nu \in Int, de \in Int] ==
    LET s == IF de < 0 THEN -1 ELSE 1
        g == GCD[Abs(nu), Abs(de)]
    IN  [num |-> (s * nu) \div g, den |-> (s * de) \div g]

Rat(nu, de) == Normalize[nu, de]

FromInt(k) == Rat(k, 1)
RatMul(x, y) == Rat(x.num * y.num, x.den * y.den)
RatDiv(x, y) == Rat(x.num * y.den, x.den * y.num)
RatSub(x, y) == Rat(x.num * y.den - y.num * x.den, x.den * y.den)

\* ------------------------------------------------ transfer functions
\* Convert raw data to EDA (in uS): raw * VCC / (0.132 * 2^n), elementwise.
raw_to_eda_uS(raw_data) ==
    LET VCC == Rat(33, 10)
        n == 10
        f(r) == RatDiv(RatMul(r, VCC), RatMul(Rat(132, 1000), FromInt(2^n)))
    IN  [k \in DOMAIN raw_data |-> f(raw_data[k])]

\* Convert raw data to ECG (in mV): (raw / 2^n - 0.5) * (VCC / G) * 1000.
raw_to_ecg_mv(raw_data) ==
    LET VCC == Rat(33, 10)
        G == FromInt(1100)
        n == 10
        f(r) == RatMul(RatMul(RatSub(RatDiv(r, FromInt(2^n)), Rat(1, 2)),
                              RatDiv(VCC, G)),
                       FromInt(1000))
    IN  [k \in DOMAIN raw_data |-> f(raw_data[k])]

\* ------------------------------------------------ insertion-ordered dict
\* A Python dict is a sequence of [key, val] records with distinct keys.
DictKeys(d) == [k \in DOMAIN d |-> d[k].key]
DictHas(d, key) == \E k \in DOMAIN d : d[k].key = key
DictGet(d, key, default) ==
    IF DictHas(d, key)
    THEN d[CHOOSE k \in DOMAIN d : d[k].key = key].val
    ELSE default
DictSet(d, key, val) ==
    IF DictHas(d, key)
    THEN [k \in DOMAIN d |-> IF d[k].key = key THEN [key |-> key, val |-> val]
                             ELSE d[k]]
    ELSE Append(d, [key |-> key, val |-> val])

\* ------------------------------------------------ one polled batch
\* device.read(nSamples): nSamples rows of 5 + nChannels columns
\* [seqNum, D0, D1, D2, D3, A...]; the analog values of a batch follow from
\* the value `seed` the environment chooses for it.
Batch(seed, nSamples, nChannels) ==
    [r \in 1..nSamples |->
        [c \in 1..(COLUMN_OFFSET + nChannels) |->
            IF c = 1 THEN (r - 1) % 16
            ELSE IF c <= COLUMN_OFFSET THEN 0
            ELSE (seed + 100 * (c - COLUMN_OFFSET - 1) + r) % 1024]]

\* _read_data[:, j].flatten()  (j is 0-based)
Column(read_data, j) ==
    [r \in DOMAIN read_data |-> FromInt(read_data[r][j + 1])]

\* Lines 229-235: `if EDA ... if ECG ... else ...` (the second `if` is not
\* an `elif`, so its else branch also runs for 'EDA').
SensorData(sensor, read_data, i) ==
    LET col == Column(read_data, COLUMN_OFFSET + i)
        after_first_if == IF sensor = "EDA" THEN raw_to_eda_uS(col) ELSE <<>>
        after_second_if == IF sensor = "ECG" THEN raw_to_ecg_mv(col) ELSE col
    IN  after_second_if

\* Lines 238-240: append under the sensor label (or create the entry).
StoreData(session, sensor, sensor_data) ==
    IF Len(DictGet(session, sensor, <<>>)) > 0
    THEN DictSet(session, sensor, DictGet(session, sensor, <<>>) \o sensor_data)
    ELSE DictSet(session, sensor, sensor_data)

\* Lines 228-240: for i, (ch, sensor) in enumerate(channels.items()).  The
\* singleton sets bind the value of each iteration once.
RECURSIVE ConvertAndStore(_, _, _, _)
ConvertAndStore(session, channels, read_data, i) ==
    IF i >= Len(channels) THEN session
    ELSE LET sensor == channels[i + 1].sensor
             stored == {StoreData(session, sensor, d) :
                           d \in {SensorData(sensor, read_data, i)}}
         IN  CHOOSE out \in {ConvertAndStore(s, channels, read_data, i + 1) :
                                 s \in stored} : TRUE

\* np.array(list(session.values())) is a rectangular array only when all
\* arrays have the same length.
Ragged(session) ==
    \E a, b \in DOMAIN session : Len(session[a].val) # Len(session[b].val)

\* ------------------------------------------------ state
VARIABLES
    device_state,                   \* Bitalino_Manager.device_state
    connection_failed_counter,      \* Bitalino_Manager.connection_failed_counter
    collected_data,                 \* Bitalino_Manager.collected_data, a dict
    pc,                             \* where the script is
    caller,                         \* who called the running connect()
    connect_mac,                    \* the macAddress argument of connect()
    frames,                         \* arguments of the start_aquisition calls, innermost last
    start,                          \* local `start` (<<>> while unbound)
    sesssion_time_stamp,            \* local (<<>> while unbound)
    collected_data_in_this_session, \* local dict, sensor label -> array
    p,                              \* local Popen handle: "Unbound" or "Bound"
    read_data,                      \* local `_read_data`, the last batch (<<>> while unbound)
    exit_by,                        \* the diagnostic that ended the try block
    n_read,                         \* samples returned by device.read in this call
    now,                            \* time.time(), in seconds
    outcome,                        \* how the last call of the script ended
    sdk_log,                        \* the SDK calls made (consecutive reads as one)
    csv,                            \* the CSV files written
    plot_pc,                        \* where the live-plot process is
    plot_argv,                      \* its command line [fs, labels]
    pipe,                           \* frames written to its stdin, not yet read
    pipe_open,                      \* the manager holds its ends of the child's stdin,
                                    \* stdout and stderr pipes
    unbuffered,                     \* the child's stdout is unbuffered (PYTHONUNBUFFERED)
    sigint,                         \* SIGINT sent to it and not yet handled
    drawn,                          \* what it has plotted, in order
    device,                         \* Bitalino_Manager.device: "Unbound" or "Bound"
    script_calls                    \* connect / disconnect / force_stop_aquisition calls of the script

class_vars == <<device_state, connection_failed_counter, collected_data>>
call_vars == <<pc, caller, connect_mac, frames, outcome, exit_by>>
local_vars == <<start, sesssion_time_stamp, collected_data_in_this_session, p, n_read,
               read_data>>
env_vars == <<now, sdk_log, csv>>
plot_vars == <<plot_pc, plot_argv, pipe, pipe_open, unbuffered, sigint, drawn>>
api_vars == <<device, script_calls>>
vars == <<class_vars, call_vars, local_vars, env_vars, plot_vars, api_vars>>

NoOutcome == [op |-> "", kind |-> "none", exc |-> "", value |-> <<>>]
Returned(op, value) == [op |-> op, kind |-> "return", exc |-> "", value |-> value]
Raised(op, exc) == [op |-> op, kind |-> "raise", exc |-> exc, value |-> <<>>]

Top == frames[Len(frames)]

\* How often the SDK call `call` is in the log.
Count(log, call) == Cardinality({i \in DOMAIN log : log[i] = call})

\* Append an SDK call to the log; a run of successful reads is one entry.
Logged(log, call) ==
    IF call = "read" /\ log # <<>> /\ log[Len(log)] = "read" THEN log
    ELSE Append(log, call)

Init ==
    /\ device_state = DEFAULT_DEVICE_STATE
    /\ connection_failed_counter = 0
    /\ collected_data = <<>>
    /\ pc = "idle"
    /\ caller = ""
    /\ connect_mac = None
    /\ frames = <<>>
    /\ start = <<>>
    /\ sesssion_time_stamp = <<>>
    /\ collected_data_in_this_session = <<>>
    /\ p = "Unbound"
    /\ read_data = <<>>
    /\ exit_by = ""
    /\ n_read = 0
    /\ now = Epoch
    /\ outcome = NoOutcome
    /\ sdk_log = <<>>
    /\ csv = <<>>
    /\ plot_pc = "none"
    /\ plot_argv = <<>>
    /\ pipe = <<>>
    /\ pipe_open = FALSE
    /\ unbuffered = FALSE
    /\ sigint = FALSE
    /\ drawn = <<>>
    /\ device = "Unbound"
    /\ script_calls = 0

\* ------------------------------------------------ device configuration
\* _select_channels: the indices appended before the first invalid name.
RECURSIVE SelectedPrefix(_, _)
SelectedPrefix(keys, i) ==
    IF i > Len(keys) \/ keys[i] \notin DOMAIN ACQ_CHANNELS THEN <<>>
    ELSE <<ACQ_CHANNELS[keys[i]]>> \o SelectedPrefix(keys, i + 1)

\* [ok, selected]: ok is FALSE when `raise Exception("[Invalid channel] ...")` runs.
select_channels(channels) ==
    [ok |-> \A k \in DOMAIN channels : channels[k] \in DOMAIN ACQ_CHANNELS,
     selected |-> SelectedPrefix(channels, 1)]

\* [ok, rate]: the else branch reads DEFAULT_DEVICE_STATE.sampling_rate, an
\* attribute of a plain dict, which raises AttributeError before anything is
\* assigned (ok = FALSE, the rate stays what it was).
select_sampling_rate(rate, current) ==
    IF rate \in SAMPLING_RATES
    THEN [ok |-> TRUE, rate |-> rate]
    ELSE [ok |-> FALSE, rate |-> current]

\* Lines 190-193: an invalid sensor type is switched to RAW, in place.
CheckSensorTypes(channels) ==
    [k \in DOMAIN channels |->
        IF channels[k].sensor \notin SENSOR_TYPES
        THEN [ch |-> channels[k].ch, sensor |-> "RAW"]
        ELSE channels[k]]

\* ------------------------------------------------ connect
\* The script calls Bitalino_Manager.connect(macAddress = mac).
connect_call(Macs) ==
    /\ pc = "idle"
    /\ script_calls < MaxScriptCalls
    /\ script_calls' = script_calls + 1
    /\ \E mac \in Macs :
        /\ pc' = "connect"
        /\ caller' = "connect"
        /\ connect_mac' = mac
    /\ UNCHANGED <<class_vars, frames, outcome, exit_by, local_vars, env_vars, plot_vars,
                   device>>

\* What the SDK does in connect: BITalino(...) and device.version() return,
\* BITalino(...) raises, or device.version() raises.
ConnectOutcomes == {"ok", "open_failed", "version_failed"}

\* What connect does once it has the SDK's answer `sdk`.  macAddress None
\* reads DEFAULT_DEVICE_STATE.MAC, an attribute of a plain dict:
\* AttributeError, raised inside the try block.
ConnectResult(mac, sdk, ds, counter) ==
    IF mac # None /\ sdk = "ok"
    THEN [raised |-> FALSE,
          counter |-> 0,
          ds |-> [ds EXCEPT !.MAC = mac, !.connected = TRUE]]
    ELSE [raised |-> TRUE,
          counter |-> counter + 1,
          ds |-> [ds EXCEPT !.connected = FALSE]]

\* The body of connect (lines 132-161), for the script or for start_aquisition.
\* Line 139 binds Bitalino_Manager.device as soon as BITalino(...) returns.
connect ==
    /\ pc = "connect"
    /\ \E sdk \in ConnectOutcomes :
        LET r == ConnectResult(connect_mac, sdk, device_state,
                               connection_failed_counter)
        IN  /\ device_state' = r.ds
            /\ connection_failed_counter' = r.counter
            /\ device' = IF connect_mac # None /\ sdk # "open_failed"
                         THEN "Bound" ELSE device
            /\ sdk_log' = IF connect_mac = None THEN sdk_log
                          ELSE IF sdk = "ok" THEN Logged(sdk_log, "open")
                          ELSE IF sdk = "open_failed" THEN Logged(sdk_log, "open_failed")
                          ELSE Logged(Logged(sdk_log, "open"), "version_failed")
            /\ IF r.raised
               THEN /\ outcome' = Raised(caller, ConnectionError)
                    /\ pc' = IF caller = "connect" THEN "idle" ELSE "done"
               ELSE /\ outcome' = IF caller = "connect"
                                  THEN Returned("connect", <<r.ds.connected>>)
                                  ELSE outcome
                    /\ pc' = IF caller = "connect" THEN "idle" ELSE "setup"
    /\ UNCHANGED <<collected_data, caller, connect_mac, frames, exit_by,
                   local_vars, now, csv, plot_vars, script_calls>>

\* disconnect without line 168: the connection flag stays set.
disconnect_KeepsFlag(ds) == ds

\* Disconnect from the device (lines 165-169).
disconnect(ds) == [ds EXCEPT !.connected = FALSE]

\* ------------------------------------------------ start_aquisition
\* The arguments of the retry (line 283): runtime, samplingRate, nSamples,
\* show_live_plot and save_to_file are passed on; channels, macAddress,
\* file_name_prefix and print_sample_log are not, and take their defaults.
RetryArgs(a) ==
    [runtime |-> a.runtime,
     channels |-> <<[ch |-> "A1", sensor |-> "EDA"]>>,
     samplingRate |-> a.samplingRate,
     nSamples |-> a.nSamples,
     show_live_plot |-> a.show_live_plot,
     macAddress |-> None,
     save_to_file |-> a.save_to_file,
     file_name_prefix |-> "BITALINO",
     print_sample_log |-> FALSE]

\* The script calls Bitalino_Manager.start_aquisition(**a) (lines 178-183).
start_aquisition(Args) ==
    /\ pc = "idle"
    /\ \E a \in Args :
        /\ frames' = <<a>>
        /\ IF device_state.connected = FALSE
           THEN /\ pc' = "connect"
                /\ caller' = "start_aquisition"
                /\ connect_mac' = a.macAddress
           ELSE /\ pc' = "setup"
                /\ UNCHANGED <<caller, connect_mac>>
    /\ outcome' = NoOutcome
    /\ UNCHANGED <<class_vars, exit_by, local_vars, env_vars, plot_vars, api_vars>>

\* Assign the locals of start_aquisition.
SetLocals(loc) ==
    /\ start' = loc[1]
    /\ sesssion_time_stamp' = loc[2]
    /\ collected_data_in_this_session' = loc[3]
    /\ p' = loc[4]
    /\ n_read' = loc[5]
    /\ read_data' = loc[6]

\* The except clauses (lines 263-285) for exception `exc`, raised when the
\* frames are `fr`, the SDK log is `log` and the connection flag is
\* `connected`; `loc` are the values of the locals at that point.  Sets pc,
\* caller, connect_mac, frames, outcome, exit_by, sdk_log and the locals.
Handler(exc, fr, log, connected, loc) ==
    IF exc = DEVICE_NOT_IDLE
    THEN \* force_stop_aquisition(), then return start_aquisition(...)
         \E stop_ok \in BOOLEAN :
            IF stop_ok
            THEN /\ sdk_log' = Logged(log, "stop")
                 /\ frames' = Append(fr, RetryArgs(fr[Len(fr)]))
                 /\ IF connected = FALSE
                    THEN /\ pc' = "connect"
                         /\ caller' = "start_aquisition"
                         /\ connect_mac' = None
                    ELSE /\ pc' = "setup"
                         /\ UNCHANGED <<caller, connect_mac>>
                 /\ start' = <<>>
                 /\ sesssion_time_stamp' = <<>>
                 /\ collected_data_in_this_session' = <<>>
                 /\ p' = "Unbound"
                 /\ n_read' = 0
                 /\ read_data' = <<>>
                 /\ UNCHANGED <<outcome, exit_by>>
            ELSE /\ sdk_log' = Logged(log, "stop_failed")
                 /\ frames' = fr
                 /\ pc' = "done"
                 /\ outcome' = Raised("start_aquisition", OtherError)
                 /\ SetLocals(loc)
                 /\ UNCHANGED <<caller, connect_mac, exit_by>>
    ELSE /\ sdk_log' = log
         /\ frames' = fr
         /\ pc' = "finish"
         /\ exit_by' = CASE exc = KeyboardInterrupt -> "[KeyboardInterrupt]"
                         [] exc = CONTACTING_DEVICE -> "[Connection lost]"
                         [] OTHER -> "Unhandeled Error"
         /\ SetLocals(loc)
         /\ UNCHANGED <<caller, connect_mac, outcome>>

\* The try block up to the poll loop (lines 185-211).  `so` is what
\* device.start does: "ok" or the exception it raises; `unbuf` tells whether
\* the environment the child inherits makes its stdout unbuffered.
setup(StartOutcomes) ==
    /\ pc = "setup"
    /\ \E so \in StartOutcomes, unbuf \in BOOLEAN :
        LET a == Top
            keys == [k \in DOMAIN a.channels |-> a.channels[k].ch]
            rate == select_sampling_rate(a.samplingRate, device_state.sampling_rate)
            chans == select_channels(keys)
            checked == CheckSensorTypes(a.channels)
            fr == [frames EXCEPT ![Len(frames)].channels = checked]
        IN  /\ so = DEVICE_NOT_IDLE => Len(frames) <= MaxRetry
            /\ IF ~rate.ok
               THEN /\ device_state' = device_state
                    /\ Handler(AttributeError, frames, sdk_log, device_state.connected, local_vars)
                    /\ UNCHANGED plot_vars
               ELSE IF ~chans.ok
               THEN /\ device_state' = [device_state EXCEPT
                                           !.sampling_rate = rate.rate,
                                           !.selected_channels = chans.selected]
                    /\ Handler(InvalidChannel, frames, sdk_log, device_state.connected, local_vars)
                    /\ UNCHANGED plot_vars
               ELSE /\ device_state' = [device_state EXCEPT
                                           !.sampling_rate = rate.rate,
                                           !.selected_channels = chans.selected]
                    /\ IF so # "ok"
                       THEN /\ Handler(so, fr, Logged(sdk_log, "start_failed"),
                                       device_state.connected, local_vars)
                            /\ UNCHANGED plot_vars
                       ELSE /\ sdk_log' = Logged(sdk_log, "start")
                            /\ frames' = fr
                            /\ start' = <<now>>
                            /\ sesssion_time_stamp' = <<now>>
                            /\ collected_data_in_this_session' = <<>>
                            /\ IF a.show_live_plot
                               THEN /\ p' = "Bound"
                                    /\ plot_pc' = "starting"
                                    /\ plot_argv' =
                                         [fs |-> rate.rate,
                                          labels |-> [k \in DOMAIN checked |->
                                                         checked[k].sensor]]
                                    /\ pipe_open' = TRUE
                                    /\ unbuffered' = unbuf
                                    /\ UNCHANGED <<pipe, sigint, drawn>>
                               ELSE UNCHANGED <<p, plot_vars>>
                            /\ pc' = "loop"
                            /\ UNCHANGED <<caller, connect_mac, outcome, exit_by, n_read,
                                           read_data>>
    /\ UNCHANGED <<connection_failed_counter, collected_data, now, csv, api_vars>>

\* Positions of the live-plot process: running (p.poll() is None) or ended.
\* "exit0" and "exit120" are exits through exit(0) after close(), the second
\* with the final flush of stdout failing; "failed" is an uncaught exception.
Alive == {"starting", "reading", "closing"}
Exited == {"exit0", "exit120", "failed"}

\* seq[-n:]
LastN(seq, n) ==
    IF Len(seq) <= n THEN seq ELSE SubSeq(seq, Len(seq) - n + 1, Len(seq))

\* Lines 248-249: the frame sent to the plot, the last 60 s of every array.
\* (json.dumps / json.loads carry these lists of numbers unchanged.)
PlotFrame(session, sampling_rate) ==
    LET max_one_min_values == 60 * sampling_rate
    IN  [k \in DOMAIN session |-> LastN(session[k].val, max_one_min_values)]

\* The time-out test with `>` for `>=`.
TimedOut_Strict(runtime, start_time, end) ==
    runtime > 0 /\ end - start_time > runtime

\* Line 256-260: the loop is left once runtime seconds have passed.
TimedOut(runtime, start_time, end) ==
    runtime > 0 /\ end - start_time >= runtime

\* One iteration of the poll loop (lines 216-260).  `ro` is what device.read
\* does ("ok" or the exception raised while it blocks), `seed` determines the
\* samples it returns, `d` is the time it takes, and `np_raises` tells whether
\* this numpy raises for np.array of arrays of different lengths (since
\* numpy 1.24) or builds an object array.  `group`: the SIGINT behind a
\* KeyboardInterrupt is a terminal Ctrl+C, which goes to the whole process
\* group, the child of line 211 included.
poll(ReadOutcomes, Seeds) ==
    /\ pc = "loop"
    /\ \E ro \in ReadOutcomes, seed \in Seeds, d \in 1..MaxTick, np_raises \in BOOLEAN,
          group \in BOOLEAN :
      \E batch \in {Batch(seed, Top.nSamples, Len(Top.channels))} :
      \E session \in {ConvertAndStore(collected_data_in_this_session, Top.channels,
                                       batch, 0)} :
        LET a == Top
            loc == <<start, sesssion_time_stamp, session, p, n_read + a.nSamples, batch>>
            exc == IF a.print_sample_log /\ Ragged(session) /\ np_raises
                       THEN ValueError
                   ELSE IF a.show_live_plot /\ Ragged(session)
                       THEN ValueError
                   ELSE IF a.show_live_plot /\ plot_pc \in Exited
                       THEN BrokenPipeError
                   ELSE "ok"
        IN  IF ro # "ok"
            THEN /\ Handler(ro, frames, Logged(sdk_log, "read_failed"),
                            device_state.connected, local_vars)
                 /\ sigint' = (sigint \/ (ro = KeyboardInterrupt /\ group
                                          /\ plot_pc \in Alive))
                 /\ UNCHANGED <<now, pipe>>
            ELSE /\ now + d - start[1] <= MaxRuntime + MaxTick - 1
                 /\ now' = now + d
                 /\ UNCHANGED sigint
                 /\ IF exc # "ok"
                    THEN /\ Handler(exc, frames, Logged(sdk_log, "read"),
                                    device_state.connected, loc)
                         /\ pipe' = pipe
                    ELSE /\ SetLocals(loc)
                         /\ sdk_log' = Logged(sdk_log, "read")
                         /\ pipe' = IF a.show_live_plot
                                    THEN Append(pipe, PlotFrame(session,
                                                    device_state.sampling_rate))
                                    ELSE pipe
                         /\ IF TimedOut(a.runtime, start[1], now + d)
                            THEN /\ pc' = "finish"
                                 /\ exit_by' = "time out"
                            ELSE UNCHANGED <<pc, exit_by>>
                         /\ UNCHANGED <<caller, connect_mac, frames, outcome>>
    /\ UNCHANGED <<class_vars, csv, plot_pc, plot_argv, pipe_open, unbuffered, drawn,
                   api_vars>>

\* pd.DataFrame(session).to_csv(path, index=False): the file written.
ToCsv(session, path) ==
    [path |-> path,
     columns |-> DictKeys(session),
     rows |-> IF session = <<>> THEN 0 ELSE Len(session[1].val),
     index |-> FALSE]

\* ------------------------------------------------ after the try statement
\* Lines 287-290: the live plot, if it still runs, is sent SIGINT.  With
\* show_live_plot set and p never assigned, line 289 raises.
terminate_plot ==
    /\ pc = "finish"
    /\ IF Top.show_live_plot /\ p = "Unbound"
       THEN /\ outcome' = Raised("start_aquisition", UnboundLocalError)
            /\ pc' = "done"
            /\ UNCHANGED sigint
       ELSE /\ sigint' = (sigint \/ (Top.show_live_plot /\ plot_pc \in Alive))
            /\ pc' = "sleep"
            /\ UNCHANGED outcome
    /\ UNCHANGED <<class_vars, caller, connect_mac, frames, exit_by, local_vars,
                   env_vars, plot_pc, plot_argv, pipe, pipe_open, unbuffered, drawn,
                   api_vars>>

\* Line 293: time.sleep(1), which Ctrl+C interrupts (the KeyboardInterrupt
\* is outside the try statement and reaches the caller).  `group`: as in poll.
sleep(SleepOutcomes) ==
    /\ pc = "sleep"
    /\ \E so \in SleepOutcomes, group \in BOOLEAN :
        IF so = KeyboardInterrupt
        THEN /\ outcome' = Raised("start_aquisition", KeyboardInterrupt)
             /\ pc' = "done"
             /\ sigint' = (sigint \/ (group /\ plot_pc \in Alive))
             /\ UNCHANGED now
        ELSE /\ now' = now + 1
             /\ pc' = "stop"
             /\ UNCHANGED <<outcome, sigint>>
    /\ UNCHANGED <<class_vars, caller, connect_mac, frames, exit_by, local_vars,
                   sdk_log, csv, plot_pc, plot_argv, pipe, pipe_open, unbuffered, drawn,
                   api_vars>>

\* Line 296: force_stop_aquisition().  `stop_ok`: device.stop() returns.
stop ==
    /\ pc = "stop"
    /\ \E stop_ok \in BOOLEAN :
        IF stop_ok
        THEN /\ sdk_log' = Logged(sdk_log, "stop")
             /\ pc' = "disconnect"
             /\ UNCHANGED outcome
        ELSE /\ sdk_log' = Logged(sdk_log, "stop_failed")
             /\ outcome' = Raised("start_aquisition", OtherError)
             /\ pc' = "done"
    /\ UNCHANGED <<class_vars, caller, connect_mac, frames, exit_by, local_vars,
                   now, csv, plot_vars, api_vars>>

\* Line 299: disconnect().  `close_ok`: device.close() returns.
close ==
    /\ pc = "disconnect"
    /\ \E close_ok \in BOOLEAN :
        IF close_ok
        THEN /\ sdk_log' = Logged(sdk_log, "close")
             /\ device_state' = disconnect(device_state)
             /\ pc' = "store"
             /\ UNCHANGED outcome
        ELSE /\ sdk_log' = Logged(sdk_log, "close_failed")
             /\ outcome' = Raised("start_aquisition", OtherError)
             /\ pc' = "done"
             /\ UNCHANGED device_state
    /\ UNCHANGED <<connection_failed_counter, collected_data, caller, connect_mac,
                   frames, exit_by, local_vars, now, csv, plot_vars, api_vars>>

\* Line 302: the session is kept under its time stamp, which is unbound when
\* the exception came before line 201.
store ==
    /\ pc = "store"
    /\ IF sesssion_time_stamp = <<>>
       THEN /\ outcome' = Raised("start_aquisition", UnboundLocalError)
            /\ pc' = "done"
            /\ UNCHANGED collected_data
       ELSE /\ collected_data' = DictSet(collected_data, sesssion_time_stamp[1],
                                         collected_data_in_this_session)
            /\ pc' = "save"
            /\ UNCHANGED outcome
    /\ UNCHANGED <<device_state, connection_failed_counter, caller, connect_mac,
                   frames, exit_by, local_vars, env_vars, plot_vars, api_vars>>

\* Lines 305-314: the CSV file and the return.  pd.DataFrame raises ValueError
\* when the arrays are not of the same length.
save ==
    /\ pc = "save"
    /\ LET a == Top
           session == collected_data_in_this_session
       IN  IF a.save_to_file /\ Ragged(session)
           THEN /\ outcome' = Raised("start_aquisition", ValueError)
                /\ csv' = csv
           ELSE /\ csv' = IF a.save_to_file
                          THEN <<ToCsv(session, <<a.file_name_prefix,
                                                  device_state.sampling_rate,
                                                  sesssion_time_stamp[1]>>)>>
                          ELSE csv
                /\ outcome' = Returned("start_aquisition",
                                       <<sesssion_time_stamp[1], session>>)
    /\ pc' = "done"
    /\ UNCHANGED <<class_vars, caller, connect_mac, frames, exit_by, local_vars,
                   now, sdk_log, plot_vars, api_vars>>

\* Where start_aquisition is between device.start and its return.
Running == {"loop", "finish", "sleep", "stop", "disconnect", "store", "save"}

\* The manager process is killed; its ends of the child's pipes close.
killed ==
    /\ pc \in Running
    /\ p = "Bound"
    /\ pc' = "killed"
    /\ pipe_open' = FALSE
    /\ UNCHANGED <<class_vars, caller, connect_mac, frames, outcome, exit_by,
                   local_vars, env_vars, plot_pc, plot_argv, pipe, unbuffered, sigint,
                   drawn, api_vars>>

\* The script ends after its call of start_aquisition (as usage_example.py
\* does, or with the exception the call raised); its ends of the child's pipes
\* close with it.
script_exit ==
    /\ pc = "done"
    /\ pc' = "exited"
    /\ pipe_open' = FALSE
    /\ UNCHANGED <<class_vars, caller, connect_mac, frames, outcome, exit_by,
                   local_vars, env_vars, plot_pc, plot_argv, pipe, unbuffered, sigint,
                   drawn, api_vars>>

\* ------------------------------------------------ public calls of the script
\* The script calls Bitalino_Manager.disconnect() (lines 165-169) itself.
\* Bitalino_Manager.device is only annotated in the class body: before the
\* first BITalino(...) returned, reading it raises AttributeError.
script_disconnect ==
    /\ pc \in {"idle", "done"}
    /\ script_calls < MaxScriptCalls
    /\ script_calls' = script_calls + 1
    /\ \E close_ok \in BOOLEAN :
        IF device = "Unbound"
        THEN /\ outcome' = Raised("disconnect", AttributeError)
             /\ UNCHANGED <<device_state, sdk_log>>
        ELSE IF close_ok
        THEN /\ sdk_log' = Logged(sdk_log, "close")
             /\ device_state' = disconnect(device_state)
             /\ outcome' = Returned("disconnect", <<None>>)
        ELSE /\ sdk_log' = Logged(sdk_log, "close_failed")
             /\ outcome' = Raised("disconnect", OtherError)
             /\ UNCHANGED device_state
    /\ UNCHANGED <<connection_failed_counter, collected_data, pc, caller, connect_mac,
                   frames, exit_by, local_vars, now, csv, plot_vars, device>>

\* The script calls Bitalino_Manager.force_stop_aquisition() (lines 321-324).
script_force_stop_aquisition ==
    /\ pc \in {"idle", "done"}
    /\ script_calls < MaxScriptCalls
    /\ script_calls' = script_calls + 1
    /\ \E stop_ok \in BOOLEAN :
        IF device = "Unbound"
        THEN /\ outcome' = Raised("force_stop_aquisition", AttributeError)
             /\ UNCHANGED sdk_log
        ELSE IF stop_ok
        THEN /\ sdk_log' = Logged(sdk_log, "stop")
             /\ outcome' = Returned("force_stop_aquisition", <<None>>)
        ELSE /\ sdk_log' = Logged(sdk_log, "stop_failed")
             /\ outcome' = Raised("force_stop_aquisition", OtherError)
    /\ UNCHANGED <<class_vars, pc, caller, connect_mac, frames, exit_by, local_vars,
                   now, csv, plot_vars, device>>

\* ------------------------------------------------ liveplot.py
\* update_plot (lines 30-62): what is plotted, the last 10 s of every row.
update_plot(data, fs) ==
    LET nb_datapoints == 10 * fs
    IN  [k \in DOMAIN data |-> LastN(data[k], nb_datapoints)]

\* print() of the child raises BrokenPipeError: stdout is unbuffered and
\* nobody holds the read end of the pipe of line 211 any more.
PrintRaises == unbuffered /\ ~pipe_open

\* Lines 1-26: imports, arguments (printed at line 16), figure.  It fails when
\* a library or the display is missing, when the print raises, and when SIGINT
\* arrives before the try statement.
liveplot_start ==
    /\ plot_pc = "starting"
    /\ \E ok \in BOOLEAN :
        plot_pc' = IF ok /\ ~sigint /\ ~PrintRaises /\ Len(plot_argv.labels) >= 1
                   THEN "reading" ELSE "failed"
    /\ sigint' = FALSE
    /\ UNCHANGED <<class_vars, call_vars, local_vars, env_vars,
                   plot_argv, pipe, pipe_open, unbuffered, drawn, api_vars>>

\* One turn of the loop (lines 68-72): readline, json.loads, update_plot.
\* At end of file readline returns '' and json.loads('') raises
\* JSONDecodeError, which nothing catches.
liveplot_read ==
    /\ plot_pc = "reading"
    /\ ~sigint
    /\ IF pipe # <<>>
       THEN /\ drawn' = Append(drawn, update_plot(Head(pipe), plot_argv.fs))
            /\ pipe' = Tail(pipe)
            /\ UNCHANGED plot_pc
       ELSE /\ ~pipe_open
            /\ plot_pc' = "failed"
            /\ UNCHANGED <<pipe, drawn>>
    /\ UNCHANGED <<class_vars, call_vars, local_vars, env_vars,
                   plot_argv, pipe_open, unbuffered, sigint, api_vars>>

\* KeyboardInterrupt inside the loop (lines 74-76): the print of line 75, then
\* close().  When the print raises, close() is not called.
liveplot_interrupt ==
    /\ plot_pc = "reading"
    /\ sigint
    /\ plot_pc' = IF PrintRaises THEN "failed" ELSE "closing"
    /\ sigint' = FALSE
    /\ UNCHANGED <<class_vars, call_vars, local_vars, env_vars,
                   plot_argv, pipe, pipe_open, unbuffered, drawn, api_vars>>

\* Lines 78-79, after the except clause: print, exit(0).  A SIGINT that came
\* after the first one was caught raises KeyboardInterrupt outside the try
\* statement; with nobody at the read end of stdout the print raises
\* (unbuffered) or the flush at exit fails (buffered, exit status 120).
liveplot_exit ==
    /\ plot_pc = "closing"
    /\ plot_pc' = IF sigint \/ PrintRaises THEN "failed"
                  ELSE IF ~pipe_open THEN "exit120"
                  ELSE "exit0"
    /\ sigint' = FALSE
    /\ UNCHANGED <<class_vars, call_vars, local_vars, env_vars,
                   plot_argv, pipe, pipe_open, unbuffered, drawn, api_vars>>

\* ------------------------------------------------ the script's inputs
ADDR == "00:21:08:35:14:75"

Macs == {None, ADDR}

Entry(ch, sensor) == [ch |-> ch, sensor |-> sensor]

\* Mappings that exercise the control flow: a valid one, one whose entries are
\* not in channel order and hold an invalid sensor type, and one with an
\* invalid channel name.  No array of these sessions differs in length from
\* another, so print_sample_log changes nothing here and is kept set; the
\* file name prefix is kept different from the default.
CtlChannelMaps ==
    { <<Entry("A1", "EDA")>>,
      <<Entry("A2", "ECG"), Entry("A1", "TMP")>>,
      <<Entry("A7", "RAW")>> }

\* The calls without a live plot.
CallArgs ==
    [runtime : 0..MaxRuntime,
     channels : CtlChannelMaps,
     samplingRate : {1000, 50},
     nSamples : {1},
     show_live_plot : {FALSE},
     macAddress : Macs,
     save_to_file : BOOLEAN,
     file_name_prefix : {"PPE"},
     print_sample_log : {TRUE}]

\* Calls of every runtime on a reachable device.
LoopArgs ==
    [runtime : 0..MaxRuntime,
     channels : CtlChannelMaps,
     samplingRate : {1000, 50},
     nSamples : {1},
     show_live_plot : BOOLEAN,
     macAddress : {ADDR},
     save_to_file : BOOLEAN,
     file_name_prefix : {"PPE"},
     print_sample_log : {TRUE}]

\* All calls: the live plot is asked for with the address of the device.
CtlArgs == CallArgs \cup LoopArgs

CtlStartOutcomes == {"ok", DEVICE_NOT_IDLE, CONTACTING_DEVICE, KeyboardInterrupt, OtherError}
CtlReadOutcomes == {"ok", CONTACTING_DEVICE, KeyboardInterrupt}
CtlSleepOutcomes == {"ok", KeyboardInterrupt}
CtlSeeds == {0}

\* Mappings that exercise the data path: channels A1..An in order, every
\* sensor type (valid or not) on every channel.
ChannelNames == <<"A1", "A2", "A3", "A4", "A5", "A6">>
SensorNames == SENSOR_TYPES \cup {"TMP"}

DataChannelMaps ==
    UNION { { [k \in 1..n |-> Entry(ChannelNames[k], f[k])] :
                f \in [1..n -> SensorNames] } : n \in 1..MaxChannels }

DataArgs ==
    [runtime : 1..MaxRuntime,
     channels : DataChannelMaps,
     samplingRate : {100},
     nSamples : 1..MaxSamples,
     show_live_plot : {FALSE},
     macAddress : {ADDR},
     save_to_file : BOOLEAN,
     file_name_prefix : {"BITALINO"},
     print_sample_log : BOOLEAN]

DataReadOutcomes == {"ok", CONTACTING_DEVICE}
DataSeeds == {0, 600}

\* ------------------------------------------------ specifications
Next ==
    \/ connect_call(Macs)
    \/ start_aquisition(CtlArgs)
    \/ connect
    \/ setup(CtlStartOutcomes)
    \/ poll(CtlReadOutcomes, CtlSeeds)
    \/ terminate_plot
    \/ sleep(CtlSleepOutcomes)
    \/ stop
    \/ close
    \/ store
    \/ save
    \/ killed
    \/ script_disconnect
    \/ script_force_stop_aquisition
    \/ liveplot_start
    \/ liveplot_read
    \/ liveplot_interrupt
    \/ liveplot_exit
    \/ script_exit

Spec == Init /\ [][Next]_vars

\* The manager's calls, without a live plot.
NextCalls ==
    \/ connect_call(Macs)
    \/ start_aquisition(CallArgs)
    \/ connect
    \/ setup(CtlStartOutcomes)
    \/ poll(CtlReadOutcomes, CtlSeeds)
    \/ terminate_plot
    \/ sleep(CtlSleepOutcomes)
    \/ stop
    \/ close
    \/ store
    \/ save
    \/ script_disconnect
    \/ script_force_stop_aquisition

SpecCalls == Init /\ [][NextCalls]_vars

\* One start_aquisition call of every runtime, with and without a live plot.
NextLoop ==
    \/ start_aquisition(LoopArgs)
    \/ connect
    \/ setup(CtlStartOutcomes)
    \/ poll(CtlReadOutcomes, CtlSeeds)
    \/ terminate_plot
    \/ sleep(CtlSleepOutcomes)
    \/ stop
    \/ close
    \/ store
    \/ save
    \/ killed
    \/ liveplot_start
    \/ liveplot_read
    \/ liveplot_interrupt
    \/ liveplot_exit
    \/ script_exit

SpecLoop == Init /\ [][NextLoop]_vars

\* The poll loop is a single blocking thread and the device keeps delivering:
\* as long as a turn with a read that returns is possible, one is made.
ReturningReads == {"ok"}
FairSpec == SpecLoop /\ WF_vars(poll(ReturningReads, CtlSeeds))

NextData ==
    \/ start_aquisition(DataArgs)
    \/ connect
    \/ setup({"ok"})
    \/ poll(DataReadOutcomes, DataSeeds)
    \/ terminate_plot
    \/ sleep({"ok"})
    \/ stop
    \/ close
    \/ store
    \/ save

SpecData == Init /\ [][NextData]_vars

\* ------------------------------------------------ claims on the data path
\* The values a sensor label stands for, computed from a raw column.
InUnits(sensor, col) ==
    CASE sensor = "EDA" -> raw_to_eda_uS(col)
      [] sensor = "ECG" -> raw_to_ecg_mv(col)
      [] OTHER -> col

\* What one batch should add under `label`: the converted column of every
\* channel mapped to it, in the order of the mapping.
RECURSIVE AppendedUnder(_, _, _, _)
AppendedUnder(label, channels, batch, i) ==
    IF i >= Len(channels) THEN <<>>
    ELSE (IF channels[i + 1].sensor = label
          THEN InUnits(label, Column(batch, COLUMN_OFFSET + i))
          ELSE <<>>)
         \o AppendedUnder(label, channels, batch, i + 1)

\* C1: every polled batch appends, under each requested channel's sensor
\* label, the channel's raw column converted by the label's transfer function
\* (EDA: _raw_to_eda_uS, ECG: _raw_to_ecg_mv), and the raw column itself only
\* under 'RAW'.
C1_UnitsByLabel ==
    [][n_read' > n_read =>
          \A k \in DOMAIN Top'.channels :
              LET label == Top'.channels[k].sensor
              IN  DictGet(collected_data_in_this_session', label, <<>>)
                  = DictGet(collected_data_in_this_session, label, <<>>)
                    \o AppendedUnder(label, Top'.channels, read_data', 0)]_vars

\* C2: after every completed iteration of the poll loop and at session end,
\* all arrays of the session dictionary have the same length, the number of
\* samples read so far.
C2_ArraysAligned ==
    pc \in Running \cup {"done", "exited"} =>
        \A k \in DOMAIN collected_data_in_this_session :
            Len(collected_data_in_this_session[k].val) = n_read

\* C7: the CSV written has one column per entry of the channels mapping,
\* named by its sensor label, one row per collected sample and no index
\* column (stated for sessions that collected samples).
C7_CsvOneColumnPerChannel ==
    (csv # <<>> /\ n_read > 0) =>
        /\ csv[1].columns = [k \in DOMAIN Top.channels |-> Top.channels[k].sensor]
        /\ csv[1].rows = n_read
        /\ csv[1].index = FALSE

\* ------------------------------------------------ claims on the control flow
\* device.start was called by the running activation of start_aquisition.
StartCalled ==
    \E i \in DOMAIN sdk_log :
        /\ sdk_log[i] \in {"start", "start_failed"}
        /\ \A j \in DOMAIN sdk_log : j > i => sdk_log[j] \notin {"stop", "stop_failed"}

\* C3: the device-busy retry receives the caller's runtime, channels,
\* samplingRate, nSamples, show_live_plot, macAddress, save_to_file,
\* file_name_prefix and print_sample_log unchanged.
C3_RetrySameParameters ==
    \A i \in DOMAIN frames : i > 1 => frames[i] = frames[1]

\* C4: an exception other than device-busy raised inside the acquisition
\* block is swallowed: start_aquisition does not raise but returns the session
\* timestamp and the data collected so far (stated for calls with a valid
\* sampling rate, and for runs in which afterwards neither device.stop() or
\* device.close() fails nor Ctrl+C interrupts the sleep).
C4_SwallowedThenReturns ==
    (/\ pc = "done"
     /\ outcome.op = "start_aquisition"
     /\ exit_by \in {"Unhandeled Error", "[Connection lost]"}
     /\ Top.samplingRate \in SAMPLING_RATES
     /\ outcome.exc \notin {OtherError, KeyboardInterrupt})
    => /\ outcome.kind = "return"
       /\ sesssion_time_stamp # <<>>
       /\ outcome.value = <<sesssion_time_stamp[1], collected_data_in_this_session>>

\* C9: once the configuration step of start_aquisition has run, a samplingRate
\* outside {1, 10, 100, 1000} has selected the default rate 100 without an
\* exception, and device.start has been called; a rate inside the set is the
\* selected rate.
C9_DefaultSamplingRate ==
    pc \in Running =>
        IF Top.samplingRate \in SAMPLING_RATES
        THEN device_state.sampling_rate = Top.samplingRate
        ELSE /\ device_state.sampling_rate = 100
             /\ StartCalled

\* C10: the live-plot process leaves its read-redraw loop only on an
\* interrupt, and then (after close()) exits with status 0.
C10_PlotLoopEndsOnlyByInterrupt ==
    /\ [][(plot_pc = "reading" /\ plot_pc' # "reading") =>
            (sigint /\ plot_pc' = "closing")]_vars
    /\ [][(plot_pc = "closing" /\ plot_pc' # "closing") => plot_pc' = "exit0"]_vars

\* A step that ends a call of connect.
ConnectStep == pc = "connect" /\ pc' # "connect"

\* First outcome of connect: True, connected, MAC the address used, counter 0.
ConnectReturnsTrue ==
    /\ device_state'.connected = TRUE
    /\ device_state'.MAC = (IF connect_mac = None
                            THEN DEFAULT_DEVICE_STATE.MAC ELSE connect_mac)
    /\ connection_failed_counter' = 0
    /\ outcome'.kind # "raise"
    /\ caller = "connect" => outcome' = Returned("connect", <<TRUE>>)
    /\ caller = "start_aquisition" => pc' = "setup"

\* Second outcome: "[Connection Error]", not connected, counter one higher.
ConnectRaises ==
    /\ outcome' = Raised(caller, ConnectionError)
    /\ device_state'.connected = FALSE
    /\ connection_failed_counter' = connection_failed_counter + 1
    /\ pc' = (IF caller = "connect" THEN "idle" ELSE "done")

\* Every call of connect ends in one of the two outcomes (this much holds).
ConnectDichotomy == [][ConnectStep => (ConnectReturnsTrue \/ ConnectRaises)]_vars

\* C5: every call of connect, macAddress = None included (which connects to
\* the default MAC address), opens a connection to an address and either
\* returns True with connected set, MAC the address used and the failure
\* counter 0, or raises "[Connection Error]" with connected unset and the
\* counter one higher; and when the connect of start_aquisition fails, the
\* exception reaches the caller and device.start is never called.
C5_ConnectOutcomes ==
    /\ [][ConnectStep =>
            /\ sdk_log' # sdk_log
            /\ ConnectReturnsTrue \/ ConnectRaises]_vars
    /\ [](outcome = Raised("start_aquisition", ConnectionError) =>
            /\ pc \in {"done", "exited"}
            /\ Count(sdk_log, "start") = 0
            /\ Count(sdk_log, "start_failed") = 0)

\* The SDK calls since the last successful device.start.
SinceStart(log) ==
    LET i == CHOOSE k \in DOMAIN log :
                 log[k] = "start" /\ \A j \in DOMAIN log : log[j] = "start" => j <= k
    IN  SubSeq(log, i, Len(log))

\* C6: start_aquisition connects only when not connected; device.read is
\* called only after a successful device.start with no device.stop in between;
\* and whenever the call returns, device.stop and then device.close have
\* been called, close exactly once, and the connection flag is unset.
C6_ConnectStartDisconnect ==
    /\ [][(pc = "idle" /\ pc' # "idle" /\ frames' # <<>>) =>
            (pc' = "connect" <=> device_state.connected = FALSE)]_vars
    /\ [](\A i \in DOMAIN sdk_log :
            /\ sdk_log[i] = "read" => i > 1 /\ sdk_log[i - 1] = "start"
            /\ sdk_log[i] = "read_failed" => i > 1 /\ sdk_log[i - 1] \in {"start", "read"})
    /\ []((outcome.op = "start_aquisition" /\ outcome.kind = "return") =>
            /\ Count(sdk_log, "start") >= 1
            /\ SinceStart(sdk_log) \in
                  { <<"start", "read", "stop", "close">>,
                    <<"start", "read_failed", "stop", "close">>,
                    <<"start", "read", "read_failed", "stop", "close">> }
            /\ Count(SinceStart(sdk_log), "close") = 1
            /\ device_state.connected = FALSE)

\* A device-busy retry that ran until its runtime elapsed and returned.
C6_Witness ==
    /\ outcome.op = "start_aquisition"
    /\ outcome.kind = "return"
    /\ Len(frames) = 2
    /\ exit_by = "time out"

\* C8: with runtime > 0 the poll loop ends (every device.read returning): it
\* reads at least one batch, is left by the time-out right after the first
\* batch completed runtime seconds or more after the start, and issues no read
\* after such a batch; with runtime = 0 it is never left by the time-out.
C8_RuntimeBoundsLoop ==
    /\ []((pc = "finish" /\ exit_by = "time out") =>
            /\ Top.runtime > 0
            /\ n_read >= Top.nSamples
            /\ now - start[1] >= Top.runtime)
    /\ []((pc = "loop" /\ Top.runtime > 0 /\ n_read > 0) =>
            now - start[1] < Top.runtime)
    /\ [](exit_by = "time out" => Top.runtime # 0)
    /\ ((pc = "loop" /\ Top.runtime > 0) ~> (pc # "loop"))

\* The time-out ended a loop that needed two batches.
C8_Witness ==
    /\ pc = "finish"
    /\ exit_by = "time out"
    /\ Top.runtime = 2
    /\ n_read = 2 * Top.nSamples

====
